---- MODULE Spec2Model ----
(***************************************************************************)
(* SecurityManager of src/src/core/new/security/auth.py: the identity      *)
(* store (users), the lifecycle flag (is_initialized), the audit log       *)
(* (security_events), the credential hasher (_hash_password,               *)
(* _verify_password) and the two operations initialize() ("bootstrap")     *)
(* and authenticate_user() ("authenticate").                               *)
(*                                                                         *)
(* Callers are the processes of Procs.  Each call is cut into steps at     *)
(* its accesses to the shared object: the read of is_initialized, the      *)
(* read of users, the insert, the write of the password to the log         *)
(* channel, the write of is_initialized, the append to security_events.    *)
(* Computation on locals between two accesses belongs to the step that     *)
(* precedes it.  The steps of different callers interleave freely: the     *)
(* class holds no lock, and the module-level instance is reachable from    *)
(* every thread of the process.  (Coroutines of ONE event loop cannot      *)
(* interleave inside these methods, which never suspend; those runs are    *)
(* the behaviours in which every call runs its steps back to back.)        *)
(*                                                                         *)
(* Strings the code slices, splits or parses are sequences of one-         *)
(* character strings; usernames and plaintext passwords, which the code    *)
(* only compares and feeds to the key derivation, are atomic strings.      *)
(* created_at, email and the timestamp of an event are written once and    *)
(* never read by the code; they are left out of the records.               *)
(*                                                                         *)
(* The /auth endpoint of src/server.py, a separate program, is modelled in *)
(* its own section with its own specification (SpecServer).                *)
(***************************************************************************)
EXTENDS Integers, Sequences, FiniteSets, TLC

VARIABLES users, is_initialized, security_events, operator_channel,
          pc, local, tokens_returned, ncalls, ninserts, view,
          secret_file, vnc_password_cache

\* users            self.users, in insertion order (a dict keeps it)
\* is_initialized   self.is_initialized
\* security_events  self.security_events
\* operator_channel the passwords logger.warning has written (line 112)
\* pc, local        each caller's position and the locals of its running call
\* tokens_returned  how many authenticate_user calls have returned a token
\* ncalls, ninserts calls of authenticate_user made, direct inserts made
\* view             what each caller holds after reading the audit log
\* secret_file      server.py: the content of /root/.vnc/password.txt
\* vnc_password_cache  server.py: what @cache holds for get_vnc_password

vars == <<users, is_initialized, security_events, operator_channel,
          pc, local, tokens_returned, ncalls, ninserts, view,
          secret_file, vnc_password_cache>>

----------------------------------------------------------------------------
(* Bounds of the model *)

NumProcs == 2
MaxAuthCalls == 2
MaxInserts == 1
MaxStoreInserts == 2

Procs == 1..NumProcs

----------------------------------------------------------------------------
(* Program constants *)

SaltBytes == 32
DigestBytes == 32
TokenBytes == 16
TokenPrefixLen == 10

----------------------------------------------------------------------------
(* Strings and bytes *)

Min(a, b) == IF a <= b THEN a ELSE b

HexDigits == <<"0", "1", "2", "3", "4", "5", "6", "7",
               "8", "9", "a", "b", "c", "d", "e", "f">>

UpperHexDigits == <<"0", "1", "2", "3", "4", "5", "6", "7",
                    "8", "9", "A", "B", "C", "D", "E", "F">>

\* the characters bytes.fromhex takes as digits: either case
IsHexChar(c) == \E i \in 1..16 : HexDigits[i] = c \/ UpperHexDigits[i] = c

HexVal(c) == (CHOOSE i \in 1..16 : HexDigits[i] = c \/ UpperHexDigits[i] = c) - 1

\* the ASCII whitespace bytes.fromhex skips between two bytes
IsSpace(c) == c \in {" ", "\t", "\n", "\r", "\f"}

IsNotSpace(c) == ~IsSpace(c)

\* bytes.hex(): two lowercase hex digits per byte
BytesHex(bs) ==
    [i \in 1..(2 * Len(bs)) |->
        IF i % 2 = 1 THEN HexDigits[(bs[(i + 1) \div 2] \div 16) + 1]
                     ELSE HexDigits[(bs[i \div 2] % 16) + 1]]

ValueError == <<-1>>

\* bytes.fromhex(): two hex digits per byte, whitespace between bytes is
\* skipped; ValueError on any other character, on an odd number of digits
\* and on whitespace between the two digits of a byte
BytesFromHex(s) ==
    LET digits == SelectSeq(s, IsNotSpace)
        DigitsBefore(i) == Len(SelectSeq(SubSeq(s, 1, i - 1), IsNotSpace))
    IN  IF \/ Len(digits) % 2 # 0
           \/ \E i \in 1..Len(digits) : ~IsHexChar(digits[i])
           \/ \E i \in 1..Len(s) : IsSpace(s[i]) /\ DigitsBefore(i) % 2 = 1
        THEN ValueError
        ELSE [i \in 1..(Len(digits) \div 2) |->
                16 * HexVal(digits[2 * i - 1]) + HexVal(digits[2 * i])]

\* str.split(':'): the parts between the delimiters, always at least one
RECURSIVE SplitColon(_)
SplitColon(s) ==
    IF \A i \in 1..Len(s) : s[i] # ":"
    THEN <<s>>
    ELSE LET k == CHOOSE i \in 1..Len(s) :
                      s[i] = ":" /\ \A j \in 1..(i - 1) : s[j] # ":"
         IN  <<SubSeq(s, 1, k - 1)>> \o SplitColon(SubSeq(s, k + 1, Len(s)))

\* s[:n]
Take(s, n) == SubSeq(s, 1, Min(n, Len(s)))

IsPrefix(s, t) == Len(s) <= Len(t) /\ SubSeq(t, 1, Len(s)) = s

\* s occurs in t as a contiguous, non-empty piece
Contains(t, s) ==
    /\ Len(s) > 0
    /\ \E i \in 0..(Len(t) - Len(s)) : SubSeq(t, i + 1, i + Len(s)) = s

----------------------------------------------------------------------------
(* Values the callers and the random sources supply *)

AdminId == "admin_001"
AdminName == "admin"

\* secrets.token_urlsafe(16): the default passwords the generator may draw
GeneratedPasswords == {"gen-A", "gen-B"}

\* plaintext passwords callers type or set
CallerPasswords == {"s3cret"}

AllPasswords == <<"gen-A", "gen-B", "s3cret", "">>

PwCode(pw) == CHOOSE i \in 1..Len(AllPasswords) : AllPasswords[i] = pw

\* secrets.token_bytes(32): the salts the generator may draw
RandomSalts == {[i \in 1..SaltBytes |-> b] : b \in {10, 243}}

\* the salts drawn while the machine runs
DrawnSalts == {[i \in 1..SaltBytes |-> 10]}

\* secrets.token_hex(16): the token bodies the generator may draw
RandomTokenBytes ==
    {[i \in 1..TokenBytes |-> IF i <= 2 THEN a ELSE 7] : a \in {26, 193}}

\* usernames and ids of the identities callers put into the store directly
StoreIds == <<"u1", "u2", "u3", "u4">>
StoreUsernames == {"alice"}

\* usernames callers try to authenticate as
AuthUsernames == {"admin", "alice"}
AuthPasswords == GeneratedPasswords \cup CallerPasswords

\* server.py: the password file when it does not exist, and the cache of
\* get_vnc_password before a call of it has returned
NoFile == <<"<no file>">>
NotCached == <<"<not cached>">>

----------------------------------------------------------------------------
(* Credential hasher *)

\* hashlib.pbkdf2_hmac('sha256', password, salt, 100000): a deterministic
\* function of password and salt with a 32-byte result, taken to be
\* collision-free: the result spells out the password's code and the salt's
\* length and leading bytes.
Pbkdf2(pw, salt) ==
    [i \in 1..DigestBytes |->
        IF i = 1 THEN PwCode(pw)
        ELSE IF i = 2 THEN Len(salt) % 256
        ELSE IF i - 2 <= Len(salt) THEN salt[i - 2] ELSE 0]

\* a hasher that leaves the salt out of the record
HashPasswordNoSalt(pw, salt) == <<":">> \o BytesHex(Pbkdf2(pw, salt))

\* _hash_password, for the salt secrets.token_bytes(32) drew
HashPassword(pw, salt) == BytesHex(salt) \o <<":">> \o BytesHex(Pbkdf2(pw, salt))

\* _verify_password: a ValueError of the unpacking or of bytes.fromhex is
\* caught and gives False
VerifyPassword(stored_password, provided_password) ==
    LET parts == SplitColon(stored_password)
    IN  IF Len(parts) # 2 THEN FALSE
        ELSE LET salt == BytesFromHex(parts[1])
                 stored_hash == BytesFromHex(parts[2])
             IN  IF salt = ValueError \/ stored_hash = ValueError THEN FALSE
                 ELSE Pbkdf2(provided_password, salt) = stored_hash

----------------------------------------------------------------------------
(* Identity store and audit log *)

User(id, username, is_active, password_hash) ==
    [id |-> id, username |-> username, is_active |-> is_active,
     password_hash |-> password_hash]

\* a store that adds an entry whatever the key
DictSetAlwaysNew(us, user) == Append(us, user)

\* self.users[id] = user: a new key goes last, an existing key keeps its place
DictSet(us, user) ==
    IF \E i \in 1..Len(us) : us[i].id = user.id
    THEN [i \in 1..Len(us) |-> IF us[i].id = user.id THEN user ELSE us[i]]
    ELSE Append(us, user)

\* the test left out: the admin is provisioned whatever the store holds
StoreTestOmitted(us) == TRUE

\* the test with its sense inverted
StoreIsEmptyInverted(us) == Len(us) # 0

\* "if not self.users"
StoreIsEmpty(us) == Len(us) = 0

\* the loop without its is_active test
FindAnyUser(us, username) ==
    IF \E i \in 1..Len(us) : us[i].username = username
    THEN CHOOSE i \in 1..Len(us) :
            /\ us[i].username = username
            /\ \A j \in 1..(i - 1) : us[j].username # username
    ELSE 0

\* a loop that keeps the last match instead of breaking at the first
FindLastActiveUser(us, username) ==
    IF \E i \in 1..Len(us) : us[i].username = username /\ us[i].is_active
    THEN CHOOSE i \in 1..Len(us) :
            /\ us[i].username = username /\ us[i].is_active
            /\ \A j \in (i + 1)..Len(us) :
                  ~(us[j].username = username /\ us[j].is_active)
    ELSE 0

\* the loop of authenticate_user: the index of the first user with this
\* username that is active, 0 when there is none
FindActiveUser(us, username) ==
    IF \E i \in 1..Len(us) : us[i].username = username /\ us[i].is_active
    THEN CHOOSE i \in 1..Len(us) :
            /\ us[i].username = username /\ us[i].is_active
            /\ \A j \in 1..(i - 1) : ~(us[j].username = username /\ us[j].is_active)
    ELSE 0

\* "user.password_hash and self._verify_password(user.password_hash, password)"
CredentialOk(user, password) ==
    /\ user.password_hash # <<>>
    /\ VerifyPassword(user.password_hash, password)

\* a token no longer than the logged fragment
MakeTokenShort(bs) == BytesHex(SubSeq(bs, 1, 5))

\* f"token_{secrets.token_hex(16)}"
MakeToken(bs) == <<"t", "o", "k", "e", "n", "_">> \o BytesHex(bs)

\* details with the token unsliced
AuthEventDetailsFullToken(username, token) ==
    [username |-> username, token |-> token]

\* the details authenticate_user logs
AuthEventDetails(username, token) ==
    [username |-> username, token |-> Take(token, TokenPrefixLen)]

\* a logger that loses the event
LogSecurityEventDropped(events, event_type, details) == events

\* _log_security_event
LogSecurityEvent(events, event_type, details) ==
    Append(events, [event_type |-> event_type, details |-> details])

----------------------------------------------------------------------------
(* State *)

NoLocal == [username |-> "", password |-> "", token |-> <<>>,
            password_hash |-> <<>>]

\* a constructor that starts initialized
InitialFlagSet == TRUE

\* "self.is_initialized = False" of __init__
InitialFlag == FALSE

Init ==
    /\ users = <<>>
    /\ is_initialized = InitialFlag
    /\ security_events = <<>>
    /\ operator_channel = <<>>
    /\ pc = [p \in Procs |-> "idle"]
    /\ local = [p \in Procs |-> NoLocal]
    /\ tokens_returned = 0
    /\ ncalls = 0
    /\ ninserts = 0
    /\ view = [p \in Procs |-> "nothing"]
    /\ secret_file = NoFile
    /\ vnc_password_cache = NotCached

----------------------------------------------------------------------------
(* initialize() and _create_default_admin() *)

\* "if self.is_initialized: return", else on to _create_default_admin
InitCheck(p) ==
    /\ pc[p] = "idle"
    /\ pc' = [pc EXCEPT ![p] = IF is_initialized THEN "init_return"
                                                  ELSE "init_create"]
    /\ UNCHANGED local
    /\ UNCHANGED <<users, is_initialized, security_events, operator_channel,
                   tokens_returned, ncalls, ninserts, view,
                   secret_file, vnc_password_cache>>

\* the "return" of a call that found the manager initialized
InitReturn(p) ==
    /\ pc[p] = "init_return"
    /\ pc' = [pc EXCEPT ![p] = "idle"]
    /\ UNCHANGED <<users, is_initialized, security_events, operator_channel, local,
                   tokens_returned, ncalls, ninserts, view,
                   secret_file, vnc_password_cache>>

\* "if not self.users": draw the password, hash it under a fresh salt
CreateCheckEmpty(p) ==
    /\ pc[p] = "init_create"
    /\ IF StoreIsEmpty(users)
       THEN \E pw \in GeneratedPasswords, salt \in DrawnSalts :
              /\ local' = [local EXCEPT ![p].password = pw,
                                        ![p].password_hash = HashPassword(pw, salt)]
              /\ pc' = [pc EXCEPT ![p] = "admin_insert"]
       ELSE /\ pc' = [pc EXCEPT ![p] = "init_set"]
            /\ UNCHANGED local
    /\ UNCHANGED <<users, is_initialized, security_events, operator_channel,
                   tokens_returned, ncalls, ninserts, view,
                   secret_file, vnc_password_cache>>

\* the user _create_default_admin builds
DefaultAdmin(password_hash) == User(AdminId, AdminName, TRUE, password_hash)

\* "self.users[admin_user.id] = admin_user"
CreateInsert(p) ==
    /\ pc[p] = "admin_insert"
    /\ users' = DictSet(users, DefaultAdmin(local[p].password_hash))
    /\ pc' = [pc EXCEPT ![p] = "admin_warn"]
    /\ UNCHANGED <<is_initialized, security_events, operator_channel, local,
                   tokens_returned, ncalls, ninserts, view,
                   secret_file, vnc_password_cache>>

\* logger.warning(... {default_password}): the password reaches the operator
CreateWarn(p) ==
    /\ pc[p] = "admin_warn"
    /\ operator_channel' = Append(operator_channel, local[p].password)
    /\ pc' = [pc EXCEPT ![p] = "init_set"]
    /\ UNCHANGED <<users, is_initialized, security_events, local,
                   tokens_returned, ncalls, ninserts, view,
                   secret_file, vnc_password_cache>>

\* a call that returns without writing the flag
InitSetSkipped(p) ==
    /\ pc[p] = "init_set"
    /\ pc' = [pc EXCEPT ![p] = "idle"]
    /\ local' = [local EXCEPT ![p] = NoLocal]
    /\ UNCHANGED <<users, is_initialized, security_events, operator_channel,
                   tokens_returned, ncalls, ninserts, view,
                   secret_file, vnc_password_cache>>

\* "self.is_initialized = True", and the call returns
InitSet(p) ==
    /\ pc[p] = "init_set"
    /\ is_initialized' = TRUE
    /\ pc' = [pc EXCEPT ![p] = "idle"]
    /\ local' = [local EXCEPT ![p] = NoLocal]
    /\ UNCHANGED <<users, security_events, operator_channel,
                   tokens_returned, ncalls, ninserts, view,
                   secret_file, vnc_password_cache>>

----------------------------------------------------------------------------
(* authenticate_user() *)

\* an authenticate_user that initializes lazily: on a manager not yet
\* initialized it goes on into _create_default_admin, else it misses
AuthLookupLazyInit(p, username, password) ==
    /\ pc[p] = "idle"
    /\ ncalls < MaxAuthCalls
    /\ ncalls' = ncalls + 1
    /\ pc' = [pc EXCEPT ![p] = IF is_initialized THEN "auth_return_none"
                                                  ELSE "init_create"]
    /\ local' = [local EXCEPT ![p].username = username,
                              ![p].password = password]
    /\ UNCHANGED <<users, is_initialized, security_events, operator_channel,
                   tokens_returned, ninserts, view,
                   secret_file, vnc_password_cache>>

\* the lookup and the verification, up to the return statement reached
AuthLookup(p, username, password) ==
    /\ pc[p] = "idle"
    /\ ncalls < MaxAuthCalls
    /\ ncalls' = ncalls + 1
    /\ LET i == FindActiveUser(users, username)
       IN  IF i # 0 /\ CredentialOk(users[i], password)
           THEN \E bs \in RandomTokenBytes :
                  /\ local' = [local EXCEPT ![p].username = username,
                                            ![p].password = password,
                                            ![p].token = MakeToken(bs)]
                  /\ pc' = [pc EXCEPT ![p] = "auth_log"]
           ELSE /\ local' = [local EXCEPT ![p].username = username,
                                          ![p].password = password]
                /\ pc' = [pc EXCEPT ![p] = "auth_return_none"]
    /\ UNCHANGED <<users, is_initialized, security_events, operator_channel,
                   tokens_returned, ninserts, view,
                   secret_file, vnc_password_cache>>

\* "return None"
AuthReturnNone(p) ==
    /\ pc[p] = "auth_return_none"
    /\ local' = [local EXCEPT ![p] = NoLocal]
    /\ pc' = [pc EXCEPT ![p] = "idle"]
    /\ UNCHANGED <<users, is_initialized, security_events, operator_channel,
                   tokens_returned, ncalls, ninserts, view,
                   secret_file, vnc_password_cache>>

\* "await self._log_security_event("user_authenticated", {...})"
AuthLog(p) ==
    /\ pc[p] = "auth_log"
    /\ security_events' =
          LogSecurityEvent(security_events, "user_authenticated",
                           AuthEventDetails(local[p].username, local[p].token))
    /\ pc' = [pc EXCEPT ![p] = "auth_return"]
    /\ UNCHANGED <<users, is_initialized, operator_channel, local,
                   tokens_returned, ncalls, ninserts, view,
                   secret_file, vnc_password_cache>>

\* "return token"
AuthReturn(p) ==
    /\ pc[p] = "auth_return"
    /\ local' = [local EXCEPT ![p] = NoLocal]
    /\ tokens_returned' = tokens_returned + 1
    /\ pc' = [pc EXCEPT ![p] = "idle"]
    /\ UNCHANGED <<users, is_initialized, security_events, operator_channel,
                   ncalls, ninserts, view,
                   secret_file, vnc_password_cache>>

----------------------------------------------------------------------------
(* A caller puts an identity into the public dict itself: the class has no *)
(* method that adds a user other than the default admin.                   *)

StoreDigests ==
    {<<>>} \cup {HashPassword(pw, salt) : pw \in CallerPasswords, salt \in DrawnSalts}

\* the n-th identity put in gets the n-th id
InsertIdentity(username, is_active, password_hash) ==
    /\ ninserts < MaxInserts
    /\ ninserts' = ninserts + 1
    /\ users' = DictSet(users, User(StoreIds[ninserts + 1], username, is_active,
                                    password_hash))
    /\ UNCHANGED <<is_initialized, security_events, operator_channel, pc, local,
                   tokens_returned, ncalls, view,
                   secret_file, vnc_password_cache>>

----------------------------------------------------------------------------
(* Specifications *)

Bootstrap(p) ==
    \/ InitCheck(p)
    \/ InitReturn(p)
    \/ CreateCheckEmpty(p)
    \/ CreateInsert(p)
    \/ CreateWarn(p)
    \/ InitSet(p)

Authenticate(p) ==
    \/ \E username \in AuthUsernames, password \in AuthPasswords :
          AuthLookup(p, username, password)
    \/ AuthReturnNone(p)
    \/ AuthLog(p)
    \/ AuthReturn(p)

Insert ==
    \E username \in StoreUsernames, is_active \in BOOLEAN,
       password_hash \in StoreDigests :
        InsertIdentity(username, is_active, password_hash)

\* bootstrap and authenticate on a store only bootstrap fills
NextBoot == \E p \in Procs : Bootstrap(p) \/ Authenticate(p)

SpecBoot == Init /\ [][NextBoot]_vars

\* a call of initialize() that has started runs on: the method has no
\* await that suspends, no lock and no loop, and its thread is scheduled
\* again.  Starting a call is left to the caller.
BootstrapRuns(p) ==
    \/ InitReturn(p)
    \/ CreateCheckEmpty(p)
    \/ CreateInsert(p)
    \/ CreateWarn(p)
    \/ InitSet(p)

SpecBootFair == SpecBoot /\ \A p \in Procs : WF_vars(BootstrapRuns(p))

\* the same, with callers that also fill the store themselves
Next == (\E p \in Procs : Bootstrap(p) \/ Authenticate(p)) \/ Insert

Spec == Init /\ [][Next]_vars

----------------------------------------------------------------------------
(* Callers that read the audit log: the attribute security_events is the   *)
(* list the manager appends to, and the class has no method that copies it *)

\* what reading manager.security_events gives: the list, not a copy of it
ReadSecurityEvents == "the_list"

ReadLog(p) ==
    /\ view[p] = "nothing"
    /\ view' = [view EXCEPT ![p] = ReadSecurityEvents]
    /\ UNCHANGED <<users, is_initialized, security_events, operator_channel, pc,
                   local, tokens_returned, ncalls, ninserts,
                   secret_file, vnc_password_cache>>

\* the caller clears what it read: list.clear() on the list empties the log,
\* on a copy it would leave the log alone
ClearView(p) ==
    /\ view[p] # "nothing"
    /\ security_events # <<>>
    /\ security_events' = IF view[p] = "the_list" THEN <<>> ELSE security_events
    /\ view' = [view EXCEPT ![p] = "nothing"]
    /\ UNCHANGED <<users, is_initialized, operator_channel, pc, local,
                   tokens_returned, ncalls, ninserts,
                   secret_file, vnc_password_cache>>

NextReaders ==
    \E p \in Procs : Bootstrap(p) \/ Authenticate(p) \/ ReadLog(p) \/ ClearView(p)

SpecReaders == Init /\ [][NextReaders]_vars

----------------------------------------------------------------------------
(* Callers that put several identities into the dict under one username,   *)
(* with a usable, an empty or an empty-plaintext password_hash, and        *)
(* callers that pass empty strings to authenticate_user                    *)

EmptyPassword == ""
EmptyUsername == ""

PutDigests ==
    {<<>>} \cup {HashPassword(pw, salt) :
                    pw \in CallerPasswords \cup {EmptyPassword}, salt \in DrawnSalts}

\* self.users[id] = User(...), the n-th identity under the n-th id
PutIdentity(username, is_active, password_hash) ==
    /\ ninserts < MaxStoreInserts
    /\ ninserts' = ninserts + 1
    /\ users' = DictSet(users, User(StoreIds[ninserts + 1], username, is_active,
                                    password_hash))
    /\ UNCHANGED <<is_initialized, security_events, operator_channel, pc, local,
                   tokens_returned, ncalls, view,
                   secret_file, vnc_password_cache>>

Put ==
    \E username \in StoreUsernames, is_active \in BOOLEAN,
       password_hash \in PutDigests :
        PutIdentity(username, is_active, password_hash)

PutAuthUsernames == StoreUsernames \cup {EmptyUsername}
PutAuthPasswords == CallerPasswords \cup {EmptyPassword}

AuthenticateAny(p) ==
    \/ \E username \in PutAuthUsernames, password \in PutAuthPasswords :
          AuthLookup(p, username, password)
    \/ AuthReturnNone(p)
    \/ AuthLog(p)
    \/ AuthReturn(p)

NextStore == (\E p \in Procs : AuthenticateAny(p)) \/ Put

SpecStore == Init /\ [][NextStore]_vars

----------------------------------------------------------------------------
(* A caller of the hasher alone: _hash_password on a password, then        *)
(* _verify_password on the record returned, or on a record a caller has    *)
(* damaged before storing it                                               *)

HasherCaller == 1

HasherPasswords == {AllPasswords[i] : i \in 1..Len(AllPasswords)}

IsNotColon(c) == c # ":"

\* what a stored record can be, given the record _hash_password returned
Damages == {"empty", "only_delimiter", "no_delimiter", "delimiter_after",
            "delimiter_before", "non_hex_salt", "non_hex_digest",
            "odd_digest", "space_in_salt"}

DamagedRecord(damage, r) ==
    CASE damage = "empty" -> <<>>
      [] damage = "only_delimiter" -> <<":">>
      [] damage = "no_delimiter" -> SelectSeq(r, IsNotColon)
      [] damage = "delimiter_after" -> r \o <<":">>
      [] damage = "delimiter_before" -> <<":">> \o r
      [] damage = "non_hex_salt" -> [r EXCEPT ![1] = "z"]
      [] damage = "non_hex_digest" -> [r EXCEPT ![Len(r)] = "g"]
      [] damage = "odd_digest" -> SubSeq(r, 1, Len(r) - 1)
      [] damage = "space_in_salt" -> SubSeq(r, 1, 2) \o <<" ">> \o SubSeq(r, 3, Len(r))

HasherLocal(password, salt, provided_password, damage) ==
    [password |-> password, salt |-> salt,
     provided_password |-> provided_password, damage |-> damage,
     hashed |-> <<>>, stored_password |-> <<>>, result |-> FALSE]

InitHasher ==
    /\ users = <<>>
    /\ is_initialized = InitialFlag
    /\ security_events = <<>>
    /\ operator_channel = <<>>
    /\ pc = [p \in Procs |-> "idle"]
    /\ \E password \in HasherPasswords, salt \in RandomSalts,
          provided_password \in HasherPasswords, damage \in Damages :
            local = [p \in Procs |->
                        IF p = HasherCaller
                        THEN HasherLocal(password, salt, provided_password, damage)
                        ELSE NoLocal]
    /\ tokens_returned = 0
    /\ ncalls = 0
    /\ ninserts = 0
    /\ view = [p \in Procs |-> "nothing"]
    /\ secret_file = NoFile
    /\ vnc_password_cache = NotCached

\* hashed = self._hash_password(password)
HashCall(p) ==
    /\ pc[p] = "idle"
    /\ local' = [local EXCEPT
                    ![p].hashed = HashPassword(local[p].password, local[p].salt)]
    /\ pc' = [pc EXCEPT ![p] = "hashed"]
    /\ UNCHANGED <<users, is_initialized, security_events, operator_channel,
                   tokens_returned, ncalls, ninserts, view,
                   secret_file, vnc_password_cache>>

\* self._verify_password(hashed, provided_password)
VerifyHashed(p) ==
    /\ pc[p] = "hashed"
    /\ local' = [local EXCEPT
                    ![p].stored_password = local[p].hashed,
                    ![p].result = VerifyPassword(local[p].hashed,
                                                 local[p].provided_password)]
    /\ pc' = [pc EXCEPT ![p] = "verified_hashed"]
    /\ UNCHANGED <<users, is_initialized, security_events, operator_channel,
                   tokens_returned, ncalls, ninserts, view,
                   secret_file, vnc_password_cache>>

\* self._verify_password(stored_password, provided_password) on a damaged record
VerifyDamaged(p) ==
    /\ pc[p] = "hashed"
    /\ LET stored_password == DamagedRecord(local[p].damage, local[p].hashed)
       IN  local' = [local EXCEPT
                        ![p].stored_password = stored_password,
                        ![p].result = VerifyPassword(stored_password,
                                                     local[p].provided_password)]
    /\ pc' = [pc EXCEPT ![p] = "verified_damaged"]
    /\ UNCHANGED <<users, is_initialized, security_events, operator_channel,
                   tokens_returned, ncalls, ninserts, view,
                   secret_file, vnc_password_cache>>

\* the caller drops the results and starts over
HasherReset(p) ==
    /\ pc[p] \in {"verified_hashed", "verified_damaged"}
    /\ local' = [local EXCEPT ![p].hashed = <<>>,
                              ![p].stored_password = <<>>,
                              ![p].result = FALSE]
    /\ pc' = [pc EXCEPT ![p] = "idle"]
    /\ UNCHANGED <<users, is_initialized, security_events, operator_channel,
                   tokens_returned, ncalls, ninserts, view,
                   secret_file, vnc_password_cache>>

NextHasher ==
    \/ HashCall(HasherCaller)
    \/ VerifyHashed(HasherCaller)
    \/ VerifyDamaged(HasherCaller)
    \/ HasherReset(HasherCaller)

SpecHasher == InitHasher /\ [][NextHasher]_vars

----------------------------------------------------------------------------
(* src/server.py: the /auth endpoint of the static server and the password *)
(* file it reads.  "async def auth" has no await and the server runs one   *)
(* event loop, so a request is handled in one step.  A client holds the    *)
(* request it sent and the response it got.  The file is written from      *)
(* outside the server, at any time.  Strings are sequences of characters.  *)

ServerClient == 1

\* what dict.get gives for a key that is absent
PyNone == <<"<None>">>

\* "if x" / "not x" on a str or None
Truthy(v) == v # PyNone /\ v # <<>>

CookieExpires == 3600

\* str.strip(): leading and trailing whitespace removed
Strip(s) ==
    IF \A i \in 1..Len(s) : IsSpace(s[i])
    THEN <<>>
    ELSE LET first == CHOOSE i \in 1..Len(s) :
                          ~IsSpace(s[i]) /\ \A j \in 1..(i - 1) : IsSpace(s[j])
             last == CHOOSE i \in 1..Len(s) :
                          ~IsSpace(s[i]) /\ \A j \in (i + 1)..Len(s) : IsSpace(s[j])
         IN  SubSeq(s, first, last)

\* contents the password file may have
SecretFiles ==
    {<<"v", "n", "c">>, <<"v", "n", "c", "\n">>, <<"n", "e", "w", "\n">>,
     <<"\n">>, <<>>}

\* request.cookies.get("sandbox_auth")
CookieValues ==
    {PyNone, <<>>, <<"x">>,
     <<"a", "u", "t", "h", "e", "n", "t", "i", "c", "a", "t", "e", "d">>}

\* request.query_params.get("password")
QueryPasswords ==
    {PyNone, <<>>, <<"v", "n", "c">>, <<"v", "n", "c", "\n">>, <<"n", "e", "w">>,
     <<"b", "a", "d">>}

Schemes == {"http", "https"}

Request(cookie, password, scheme) ==
    [cookie |-> cookie, password |-> password, scheme |-> scheme]

\* open() on a file that does not exist
FileNotFoundError == <<"<FileNotFoundError>">>

\* get_vnc_password(): the cached value if a call has returned before, else
\* the stripped content of the file, or the exception open() raises
GetVncPassword ==
    IF vnc_password_cache # NotCached THEN vnc_password_cache
    ELSE IF secret_file = NoFile THEN FileNotFoundError
    ELSE Strip(secret_file)

NoCookie == [key |-> "", value |-> <<>>, httponly |-> FALSE, secure |-> FALSE,
             expires |-> 0]

\* response.set_cookie(key="sandbox_auth", value="authenticated", ...)
AuthCookie(scheme) ==
    [key |-> "sandbox_auth",
     value |-> <<"a", "u", "t", "h", "e", "n", "t", "i", "c", "a", "t", "e", "d">>,
     httponly |-> TRUE, secure |-> (scheme = "https"), expires |-> CookieExpires]

HttpResponse(status, set_cookie) == [status |-> status, set_cookie |-> set_cookie]

\* whether auth() gets as far as calling get_vnc_password()
AuthReadsSecret(request) == ~Truthy(request.cookie) /\ Truthy(request.password)

\* auth(): the response, given what get_vnc_password() gives if called; an
\* exception other than HTTPException leaves the handler and the server
\* answers 500
AuthResponse(request, secret) ==
    IF Truthy(request.cookie) THEN HttpResponse("OK", NoCookie)
    ELSE IF ~Truthy(request.password) THEN HttpResponse("UNAUTHORIZED", NoCookie)
    ELSE IF secret = FileNotFoundError
         THEN HttpResponse("INTERNAL_SERVER_ERROR", NoCookie)
    ELSE IF request.password # secret THEN HttpResponse("UNAUTHORIZED", NoCookie)
    ELSE HttpResponse("OK", AuthCookie(request.scheme))

InitServer ==
    /\ users = <<>>
    /\ is_initialized = InitialFlag
    /\ security_events = <<>>
    /\ operator_channel = <<>>
    /\ pc = [p \in Procs |-> "idle"]
    /\ local = [p \in Procs |-> NoLocal]
    /\ tokens_returned = 0
    /\ ncalls = 0
    /\ ninserts = 0
    /\ view = [p \in Procs |-> "nothing"]
    /\ secret_file \in SecretFiles \cup {NoFile}
    /\ vnc_password_cache = NotCached

\* GET /auth
Auth(p, request) ==
    /\ pc[p] = "idle"
    /\ local' = [local EXCEPT ![p] =
                    [request |-> request,
                     response |-> AuthResponse(request, GetVncPassword)]]
    /\ vnc_password_cache' =
          IF AuthReadsSecret(request) /\ GetVncPassword # FileNotFoundError
          THEN GetVncPassword
          ELSE vnc_password_cache
    /\ pc' = [pc EXCEPT ![p] = "responded"]
    /\ UNCHANGED <<users, is_initialized, security_events, operator_channel,
                   tokens_returned, ncalls, ninserts, view, secret_file>>

\* the client is done with the response
ClientDone(p) ==
    /\ pc[p] = "responded"
    /\ local' = [local EXCEPT ![p] = NoLocal]
    /\ pc' = [pc EXCEPT ![p] = "idle"]
    /\ UNCHANGED <<users, is_initialized, security_events, operator_channel,
                   tokens_returned, ncalls, ninserts, view,
                   secret_file, vnc_password_cache>>

\* the password file is written, or removed, by whoever provisions it
WriteSecretFile(content) ==
    /\ secret_file' = content
    /\ secret_file' # secret_file
    /\ UNCHANGED <<users, is_initialized, security_events, operator_channel,
                   pc, local, tokens_returned, ncalls, ninserts, view,
                   vnc_password_cache>>

AuthRequest ==
    \E cookie \in CookieValues, password \in QueryPasswords, scheme \in Schemes :
        Auth(ServerClient, Request(cookie, password, scheme))

Provision == \E content \in SecretFiles \cup {NoFile} : WriteSecretFile(content)

NextServer == AuthRequest \/ ClientDone(ServerClient) \/ Provision

SpecServer == InitServer /\ [][NextServer]_vars

----------------------------------------------------------------------------
(* Notions the claims use *)

BootPcs == {"init_create", "init_return", "admin_insert", "admin_warn", "init_set"}

NoBootstrapRunning == \A p \in Procs : pc[p] \notin BootPcs

OnlyDefaultAdmin(us) ==
    /\ Len(us) = 1
    /\ us[1].id = AdminId
    /\ us[1].username = AdminName

\* the code appends events of one type only; any other event would do as a
\* provisioning event
IsProvisioningEvent(e) == e.event_type # "user_authenticated"

ProvisioningEvents ==
    {i \in 1..Len(security_events) : IsProvisioningEvent(security_events[i])}

----------------------------------------------------------------------------
(* C1: on a store only bootstrap fills, once a bootstrap call has          *)
(* completed (is_initialized is set by the first call that completes) the  *)
(* store holds exactly one identity, the default admin; and a call that    *)
(* finds the manager initialized returns with the store, the audit log and *)
(* the flag as they were.                                                  *)

C1_ReadyCallIsNoOp ==
    \A p \in Procs :
        /\ (pc[p] = "idle" /\ pc'[p] \in BootPcs /\ is_initialized)
              => /\ pc'[p] = "init_return"
                 /\ UNCHANGED <<users, security_events, is_initialized>>
        /\ (pc[p] = "init_return" /\ pc'[p] # "init_return")
              => /\ pc'[p] = "idle"
                 /\ UNCHANGED <<users, security_events, is_initialized>>

C1_BootstrapIdempotent ==
    /\ [](is_initialized => OnlyDefaultAdmin(users))
    /\ [][C1_ReadyCallIsNoOp]_vars

C1_Witness ==
    /\ is_initialized
    /\ OnlyDefaultAdmin(users)
    /\ \E p \in Procs : pc[p] = "init_return"

(* C2: once bootstrap has provisioned the default identity (and so ever    *)
(* after the first call has completed), the audit log holds exactly one    *)
(* provisioning event.                                                     *)
C2_ProvisioningAudited ==
    is_initialized => Cardinality(ProvisioningEvents) = 1

(* C3: when bootstrap calls have raced in any interleaving and all of them *)
(* have finished, the store holds exactly one identity with the default    *)
(* admin's username.                                                       *)
C3_OneAdminAfterRace ==
    (NoBootstrapRunning /\ is_initialized)
        => /\ Cardinality({i \in 1..Len(users) : users[i].username = AdminName}) = 1
           /\ Len(users) = 1

\* two callers both provisioned, and both calls are over
C3_Witness ==
    /\ NoBootstrapRunning
    /\ is_initialized
    /\ Len(operator_channel) = 2
    /\ Len(users) = 1

(* C4: no two callers are both past the emptiness check of                 *)
(* _create_default_admin with their insert done: at most one caller        *)
(* provisions.                                                             *)
C4_MutualExclusion ==
    \A p, q \in Procs :
        (p # q) => ~(pc[p] = "admin_warn" /\ pc[q] = "admin_warn")

(* C5: is_initialized starts false, only the last step of initialize()     *)
(* makes it true, and no step makes it false again.                        *)
C5_OnlyBootstrapSets ==
    /\ is_initialized => is_initialized'
    /\ (~is_initialized /\ is_initialized')
          => \E p \in Procs : pc[p] = "init_set" /\ pc'[p] = "idle"

C5_ReadyIsTerminal ==
    /\ ~is_initialized
    /\ [][C5_OnlyBootstrapSets]_vars

\* initialized, with bootstrap and authenticate calls made since
C5_Witness ==
    /\ is_initialized
    /\ ncalls = MaxAuthCalls
    /\ \E p \in Procs : pc[p] = "init_return"
    /\ tokens_returned >= 1

(* C6: a call of authenticate_user made when no identity has the          *)
(* username, when every identity with the username is inactive, when the   *)
(* first active identity with the username has an empty password_hash, or  *)
(* when the password does not verify against that identity's               *)
(* password_hash, goes to "return None" and appends nothing to the log,    *)
(* and from "return None" the call only returns.                           *)

IsMatch(us, i, username) == us[i].username = username /\ us[i].is_active

IsFirstMatch(us, i, username) ==
    IsMatch(us, i, username) /\ \A j \in 1..(i - 1) : ~IsMatch(us, j, username)

CaseUnknownUsername(us, username) ==
    \A i \in 1..Len(us) : us[i].username # username

CaseInactive(us, username) ==
    /\ \E i \in 1..Len(us) : us[i].username = username
    /\ \A i \in 1..Len(us) : us[i].username = username => ~us[i].is_active

CaseEmptyDigest(us, username) ==
    \E i \in 1..Len(us) : IsFirstMatch(us, i, username) /\ us[i].password_hash = <<>>

CaseWrongCredential(us, username, password) ==
    \E i \in 1..Len(us) :
        /\ IsFirstMatch(us, i, username)
        /\ ~VerifyPassword(us[i].password_hash, password)

FailureCase(us, username, password) ==
    \/ CaseUnknownUsername(us, username)
    \/ CaseInactive(us, username)
    \/ CaseEmptyDigest(us, username)
    \/ CaseWrongCredential(us, username, password)

\* this step is caller p's call authenticate_user(username, password)
CalledWith(p, username, password) ==
    /\ pc[p] = "idle"
    /\ pc'[p] \in {"auth_log", "auth_return_none"}
    /\ local'[p].username = username
    /\ local'[p].password = password

C6_FailureStep ==
    \A p \in Procs :
        /\ \A username \in AuthUsernames, password \in AuthPasswords :
              (CalledWith(p, username, password)
                    /\ FailureCase(users, username, password))
                 => /\ pc'[p] = "auth_return_none"
                    /\ local'[p].token = <<>>
                    /\ security_events' = security_events
        /\ (pc[p] = "auth_return_none" /\ pc'[p] # "auth_return_none")
              => /\ pc'[p] = "idle"
                 /\ security_events' = security_events
                 /\ tokens_returned' = tokens_returned

C6_UniformFailure == [][C6_FailureStep]_vars

\* a call that named an inactive identity and gave its right password is at
\* "return None"
C6_Witness ==
    \E p \in Procs :
        /\ pc[p] = "auth_return_none"
        /\ CaseInactive(users, local[p].username)
        /\ \E i \in 1..Len(users) :
              /\ users[i].username = local[p].username
              /\ users[i].password_hash # <<>>
              /\ VerifyPassword(users[i].password_hash, local[p].password)

(* C7: a call at "return token" has a non-empty token, and the log holds   *)
(* a user_authenticated event with the call's username and a token field   *)
(* that is a prefix of that token and shorter than it; the step that logs  *)
(* appends that one event and nothing else.                                *)

IsStrictPrefix(s, t) == IsPrefix(s, t) /\ Len(s) < Len(t)

IsAuthEventFor(e, username, token) ==
    /\ e.event_type = "user_authenticated"
    /\ e.details.username = username
    /\ IsStrictPrefix(e.details.token, token)

LoggedFor(username, token) ==
    /\ token # <<>>
    /\ \E i \in 1..Len(security_events) :
          IsAuthEventFor(security_events[i], username, token)

C7_LogStep ==
    \A p \in Procs :
        (pc[p] = "auth_log" /\ pc'[p] = "auth_return")
            => /\ Len(security_events') = Len(security_events) + 1
               /\ IsPrefix(security_events, security_events')
               /\ IsAuthEventFor(security_events'[Len(security_events')],
                                  local[p].username, local'[p].token)

C7_SuccessIsLogged ==
    /\ [](\A p \in Procs :
            pc[p] = "auth_return" => LoggedFor(local[p].username, local[p].token))
    /\ [][C7_LogStep]_vars

C7_Witness ==
    \E p \in Procs :
        /\ pc[p] = "auth_return"
        /\ Len(local[p].token) = 6 + 2 * TokenBytes
        /\ \E i \in 1..Len(security_events) :
              /\ IsAuthEventFor(security_events[i], local[p].username, local[p].token)
              /\ Len(security_events[i].details.token) = TokenPrefixLen

(* C8: the user_authenticated events in the log are as many as the calls   *)
(* that have returned a token plus the calls that have logged and are at   *)
(* "return token"; so when no call is running, as many as the tokens       *)
(* returned, whatever the mix of successes and failures.                   *)

AuthenticatedEvents ==
    {i \in 1..Len(security_events) :
        security_events[i].event_type = "user_authenticated"}

AboutToReturn == {p \in Procs : pc[p] = "auth_return"}

C8_EventsCountSuccesses ==
    Cardinality(AuthenticatedEvents) = tokens_returned + Cardinality(AboutToReturn)

\* a success and a failure, and no call running
C8_Witness ==
    /\ \A p \in Procs : pc[p] = "idle"
    /\ tokens_returned >= 1
    /\ ncalls > tokens_returned
    /\ Cardinality(AuthenticatedEvents) = tokens_returned

(* C9: no event of the log holds a token the manager can issue, a          *)
(* plaintext password (typed by a caller or generated for the admin), or   *)
(* the salt or the digest of a password_hash of the store.  Usernames and  *)
(* passwords are drawn from disjoint sets: a username is logged as given.  *)

Plaintexts == GeneratedPasswords \cup AuthPasswords \cup CallerPasswords

PartsOf(record) == {SplitColon(record)[k] : k \in 1..Len(SplitColon(record))}

DigestParts ==
    UNION {{part \in PartsOf(users[i].password_hash) : part # <<>>} :
                i \in 1..Len(users)}

EventIsClean(e) ==
    /\ DOMAIN e.details = {"username", "token"}
    /\ e.details.username \notin Plaintexts
    /\ \A bs \in RandomTokenBytes : ~Contains(e.details.token, MakeToken(bs))
    /\ \A part \in DigestParts : ~Contains(e.details.token, part)

C9_NoSecretsInLog ==
    \A i \in 1..Len(security_events) : EventIsClean(security_events[i])

\* bootstrap has run, every call succeeded and is logged, a digest is stored
C9_Witness ==
    /\ Len(security_events) = MaxAuthCalls
    /\ tokens_returned = MaxAuthCalls
    /\ is_initialized
    /\ DigestParts # {}

(* C10: the audit log only grows: whatever step is taken, by the manager   *)
(* or by a caller using what it read from the log, the log before the step *)
(* is a prefix of the log after it.                                        *)
C10_AppendOnly == [][IsPrefix(security_events, security_events')]_vars

(* C11: on a store only bootstrap fills, the operator channel never holds  *)
(* more than one generated password, and holds exactly one once bootstrap  *)
(* has completed and no call is running; every stored password_hash is a   *)
(* record hex(salt):hex(digest) and never the generated password itself,   *)
(* and no event of the audit log carries a generated password.             *)

IsDigestShaped(record) ==
    LET parts == SplitColon(record)
    IN  /\ Len(parts) = 2
        /\ Len(parts[1]) = 2 * SaltBytes
        /\ Len(parts[2]) = 2 * DigestBytes

IsDigestRecord(record) ==
    LET parts == SplitColon(record)
    IN  /\ Len(parts) = 2
        /\ Len(parts[1]) = 2 * SaltBytes
        /\ Len(parts[2]) = 2 * DigestBytes
        /\ \E pw \in GeneratedPasswords : VerifyPassword(record, pw)

C11_SurfacedOnce ==
    /\ Len(operator_channel) <= 1
    /\ (is_initialized /\ NoBootstrapRunning) => Len(operator_channel) = 1
    /\ \A i \in 1..Len(users) : IsDigestRecord(users[i].password_hash)
    /\ \A i \in 1..Len(security_events) :
          security_events[i].details.username \notin GeneratedPasswords

(* C12: no two identities of the store share a username, however callers   *)
(* put identities into it: a second identity under a username already      *)
(* stored is not kept.                                                     *)
C12_UniqueUsernames ==
    \A i, j \in 1..Len(users) :
        (i # j) => users[i].username # users[j].username

(* C13: _verify_password on the record _hash_password returned for a       *)
(* password, whatever salt was drawn, gives True when the password         *)
(* provided is that password and False when it is any other.               *)
C13_RoundTrip ==
    pc[HasherCaller] = "verified_hashed"
        => (local[HasherCaller].result
                <=> (local[HasherCaller].provided_password
                        = local[HasherCaller].password))

\* the empty password, hashed under the second salt, has verified
C13_Witness ==
    /\ pc[HasherCaller] = "verified_hashed"
    /\ local[HasherCaller].result
    /\ local[HasherCaller].password = EmptyPassword
    /\ local[HasherCaller].salt[1] = 243
    /\ IsDigestShaped(local[HasherCaller].stored_password)

(* C14: _verify_password gives False, whatever password is provided, on    *)
(* every stored record that is malformed: one that does not hold exactly   *)
(* one delimiter (the empty record among them), or whose salt or digest    *)
(* part is not an even number of hex digits.                               *)

IsHexString(s) ==
    /\ Len(s) % 2 = 0
    /\ \A i \in 1..Len(s) : IsHexChar(s[i])

IsMalformed(record) ==
    LET parts == SplitColon(record)
    IN  \/ Len(parts) # 2
        \/ ~IsHexString(parts[1])
        \/ ~IsHexString(parts[2])

C14_FailsClosed ==
    (pc[HasherCaller] = "verified_damaged"
        /\ IsMalformed(local[HasherCaller].stored_password))
            => local[HasherCaller].result = FALSE

(* C15: whatever the store holds, a call of authenticate_user with an      *)
(* empty username or an empty password goes to "return None" and appends   *)
(* nothing to the audit log.                                               *)
C15_EmptyStep ==
    \A p \in Procs :
        \A username \in PutAuthUsernames, password \in PutAuthPasswords :
            (CalledWith(p, username, password)
                  /\ (username = EmptyUsername \/ password = EmptyPassword))
               => /\ pc'[p] = "auth_return_none"
                  /\ local'[p].token = <<>>
                  /\ security_events' = security_events

C15_EmptyIsMiss == [][C15_EmptyStep]_vars

(* C16: a call of authenticate_user succeeds exactly when the first-put    *)
(* identity that is active and has the username (inactive ones with the    *)
(* username are passed over) has a password_hash the password verifies     *)
(* against; identities put later under the same username are not tried,    *)
(* and with no such identity the call goes to "return None".               *)
C16_LookupStep ==
    \A p \in Procs :
        \A username \in PutAuthUsernames, password \in PutAuthPasswords :
            CalledWith(p, username, password)
               => IF \E i \in 1..Len(users) : IsFirstMatch(users, i, username)
                  THEN \A i \in 1..Len(users) :
                          IsFirstMatch(users, i, username)
                             => ((pc'[p] = "auth_log")
                                   <=> /\ users[i].password_hash # <<>>
                                       /\ VerifyPassword(users[i].password_hash,
                                                         password))
                  ELSE pc'[p] = "auth_return_none"

C16_FirstActiveWins == [][C16_LookupStep]_vars

\* a call is at "return None" although the second identity, active and
\* under the same username, has a password_hash its password verifies
\* against: the first one, active too, has not
C16_Witness ==
    \E p \in Procs :
        /\ pc[p] = "auth_return_none"
        /\ Len(users) = 2
        /\ IsFirstMatch(users, 1, local[p].username)
        /\ ~VerifyPassword(users[1].password_hash, local[p].password)
        /\ IsMatch(users, 2, local[p].username)
        /\ VerifyPassword(users[2].password_hash, local[p].password)
        /\ ncalls = 1

(* C17: a step of initialize() taken on a non-empty store, by a call that  *)
(* has not read the store as empty, changes neither the store nor the      *)
(* operator channel: the call goes from the flag's test to the store's     *)
(* test and from there straight to the write of the flag, which sets       *)
(* is_initialized and ends the call.                                       *)
C17_NonEmptyStep ==
    \A p \in Procs :
        /\ (pc[p] = "idle" /\ pc'[p] \in BootPcs /\ ~is_initialized
                /\ users # <<>>)
              => /\ pc'[p] = "init_create"
                 /\ UNCHANGED <<users, operator_channel>>
        /\ (pc[p] = "init_create" /\ pc'[p] # "init_create"
                /\ users # <<>>)
              => /\ pc'[p] = "init_set"
                 /\ UNCHANGED <<users, operator_channel>>
        /\ (pc[p] = "init_set" /\ pc'[p] # "init_set")
              => /\ pc'[p] = "idle"
                 /\ is_initialized'
                 /\ UNCHANGED <<users, operator_channel>>

C17_NonEmptyBootstrap == [][C17_NonEmptyStep]_vars

\* initialized over an identity a caller had put in: no admin, nothing
\* surfaced
C17_Witness ==
    /\ is_initialized
    /\ NoBootstrapRunning
    /\ Len(users) = 1
    /\ users[1].id = StoreIds[1]
    /\ operator_channel = <<>>

(* C18: when every started call of initialize() keeps taking steps, a call *)
(* started on a manager not yet initialized leads to is_initialized, every *)
(* started call returns, racing ones too, and once is_initialized is true  *)
(* it stays true.                                                          *)
C18_EventuallyReady ==
    /\ \A p \in Procs : (pc[p] \in BootPcs) ~> is_initialized
    /\ \A p \in Procs : (pc[p] \in BootPcs) ~> (pc[p] = "idle")
    /\ [](is_initialized => []is_initialized)

\* every caller raced through the provisioning, all have returned and the
\* manager is initialized
C18_Witness ==
    /\ is_initialized
    /\ \A p \in Procs : pc[p] = "idle"
    /\ Len(operator_channel) = NumProcs

(* C19: on a store only bootstrap fills, once is_initialized is true every *)
(* password written to the operator channel is one that                    *)
(* authenticate_user("admin", password) would return a token for.          *)

WouldAuthenticate(username, password) ==
    LET i == FindActiveUser(users, username)
    IN  i # 0 /\ CredentialOk(users[i], password)

C19_SurfacedAuthenticates ==
    is_initialized
        => \A k \in 1..Len(operator_channel) :
              WouldAuthenticate(AdminName, operator_channel[k])

(* C20: no step of a call of authenticate_user changes the store, the      *)
(* flag or the operator channel, whether the manager is initialized or     *)
(* not: the call goes to "return None" or to the log step and never into   *)
(* the provisioning, to "return None" when the store is empty; only the    *)
(* log step changes the audit log, by one event, and when the call has     *)
(* returned the manager holds nothing of the token but that event.         *)

AuthPcs == {"auth_log", "auth_return", "auth_return_none"}

C20_AuthStep ==
    \A p \in Procs :
        /\ (pc[p] = "idle" /\ pc'[p] # "idle" /\ ncalls' # ncalls)
              => /\ pc'[p] \in {"auth_log", "auth_return_none"}
                 /\ (users = <<>>) => pc'[p] = "auth_return_none"
                 /\ UNCHANGED <<users, is_initialized, operator_channel,
                                security_events>>
        /\ (pc[p] \in AuthPcs /\ pc'[p] # pc[p])
              => /\ pc'[p] \in {"auth_return", "idle"}
                 /\ UNCHANGED <<users, is_initialized, operator_channel>>
                 /\ IF pc[p] = "auth_log"
                    THEN Len(security_events') = Len(security_events) + 1
                    ELSE UNCHANGED security_events

C20_AuthenticateFrame == [][C20_AuthStep]_vars

\* never initialized: a call has returned a token, another has missed,
\* and the store still holds only the identity a caller put in
C20_Witness ==
    /\ ~is_initialized
    /\ \A p \in Procs : pc[p] = "idle"
    /\ tokens_returned = 1
    /\ ncalls = 2
    /\ Len(security_events) = 1
    /\ Len(users) = 1
    /\ operator_channel = <<>>

(* C21: a response of /auth is 200 only if the request carried a           *)
(* non-empty sandbox_auth cookie, or a non-empty password equal to the     *)
(* secret get_vnc_password holds; it sets the sandbox_auth cookie only     *)
(* when there was no such cookie and the password was that secret; and a   *)
(* request with no cookie, or an empty one, and a password that is         *)
(* missing, empty or not the secret gets 401 and no cookie.                *)

Responded == pc[ServerClient] = "responded"

SentCookie == Truthy(local[ServerClient].request.cookie)

SentPassword == Truthy(local[ServerClient].request.password)

\* the password sent is the secret the server holds
PasswordIsSecret ==
    /\ SentPassword
    /\ vnc_password_cache # NotCached
    /\ local[ServerClient].request.password = vnc_password_cache

GotStatus(status) == local[ServerClient].response.status = status

GotCookie == local[ServerClient].response.set_cookie # NoCookie

C21_OkOnlyIfAuthorized ==
    Responded =>
        /\ GotStatus("OK") => (SentCookie \/ PasswordIsSecret)
        /\ GotCookie => (~SentCookie /\ PasswordIsSecret /\ GotStatus("OK"))
        /\ (~SentCookie /\ PasswordIsSecret) => GotCookie

C21_AuthGate ==
    /\ C21_OkOnlyIfAuthorized
    /\ Responded =>
          ((~SentCookie /\ ~PasswordIsSecret)
              => (GotStatus("UNAUTHORIZED") /\ ~GotCookie))

(* What /auth does as built: the same, except that a request with no       *)
(* cookie and a non-empty password gets 401 only when the server holds a   *)
(* secret (cached, or read from the file at that request) and the password *)
(* is not it; when the file does not exist and no secret is cached the     *)
(* answer is 500, with no cookie set.  A missing or empty password gets    *)
(* 401 in either case.                                                     *)
AuthGateAsBuilt ==
    /\ C21_OkOnlyIfAuthorized
    /\ Responded =>
          /\ (~SentCookie /\ ~SentPassword)
                => (GotStatus("UNAUTHORIZED") /\ ~GotCookie)
          /\ (~SentCookie /\ SentPassword /\ vnc_password_cache = NotCached)
                => (GotStatus("INTERNAL_SERVER_ERROR") /\ ~GotCookie)
          /\ (~SentCookie /\ SentPassword /\ vnc_password_cache # NotCached
                /\ ~PasswordIsSecret)
                => (GotStatus("UNAUTHORIZED") /\ ~GotCookie)

====
